---------------------------- MODULE Spec2Model ----------------------------
(***************************************************************************)
(* A state-machine model of pyVoIP's SIPClient (src/pyVoIP/SIP/client.py): *)
(* the agent lifecycle (start, stop), the REGISTER / deregister            *)
(* transaction drivers with the register timer, the INVITE, MESSAGE and    *)
(* BYE drivers, the receive task with the dispatcher, the authenticator    *)
(* (gen_authorization, gen_digest) with its nonce counters, and gen_tag(). *)
(*                                                                         *)
(* Threads.  "app" is the caller's thread that runs start() and stop();    *)
(* "timer" is the thread of a fired register Timer, which runs register(); *)
(* "drv" (the d* variables) is a second caller thread that runs invite(),  *)
(* message() or bye(); "recv" (the r* variables) is the receive task.  A   *)
(* step of the model is one blocking socket operation of the code together *)
(* with the thread-local computation around it; reads and writes of shared *)
(* fields (NSD, registerThread, the socket) that the code does in separate *)
(* statements around a blocking call are separate steps.                   *)
(*                                                                         *)
(* Replies of the registrar are inputs: each read draws a status (and, for *)
(* 401/407, a challenge) from a small set, or fails with a read error.     *)
(***************************************************************************)
EXTENDS Integers, Sequences, FiniteSets, TLC

VARIABLES
    NSD,              \* self.NSD
    sock,             \* self.s: "none" (attribute not set), "open", "closed"
    nSockets,         \* number of VoIPSocket objects created so far
    registerThread,   \* self.registerThread: "None", or the state of the Timer
                      \* it references: "armed", "fired", "cancelled"
    timerInterval,    \* interval of the Timer self.registerThread references
    orphans,          \* started Timers still pending that self.registerThread
                      \* no longer references
    recvSpawned,      \* number of receive tasks start() has spawned
    registerCounter, callID, inviteCounter, messageCounter, sessID,
    tags,             \* self.tags
    tagLibrary,       \* self.tagLibrary (key 0 is "register", else a call id)
    ALLOW_BASIC_AUTH, \* pyVoIP.ALLOW_BASIC_AUTH
    pc,               \* per thread: position in register()/deregister()
    response,         \* per thread: the local `response` (status, challenge)
    resp_bound,       \* per thread: is trying_timeout_check's local `resp` bound
    elapsed,          \* per thread: time.monotonic() - start_time
    phase,            \* per thread: 1 before the challenged REGISTER, 2 after
    outcome,          \* per thread: how the last register()/deregister() ended
    appOp,            \* the operation the app thread runs or ran last
    opResult,         \* how the app thread's last start()/stop() ended
    stopped,          \* a stop() has ended since the last start() began
    sent,             \* the message the last step put on the socket, or NoMsg
    dpc, dOp, dResponse, dBranch, dCallId, dSessId, dAuth, dMsg, dSent, dOutcome,
    call_callback,    \* self.call_callback: "None" or "set"
    rpc,              \* the receive task: "none", "loop", "exited", "raised"
    rIn,              \* the datagram the receive task read last
    rOut,             \* what the task did for it, in order: callback calls,
                      \* sends, debug lines
    raw,              \* the receive task's local `raw`: "unbound" or "bound"
    gpc, gCand,       \* per caller of gen_tag() followed statement by
                      \* statement: position and candidate
    emitted,          \* the tags those calls have returned, in order
    nc,               \* self.nc: nonce -> value of its Counter (keys created
                      \* on first use)
    challenge,        \* the challenge message handed to gen_authorization()
    authLog,          \* the results of the gen_authorization() calls, in order
    consulted,        \* self.credentials_manager.get() has been called
    wire,             \* the datagram waiting in the socket's receive buffer
    taken,            \* which thread's read returned the reply to the drv
                      \* thread's request: "none", "drv", "recv"
    npc, nNonce,      \* per caller of gen_digest() followed statement by
                      \* statement: position and nonce
    ncOut             \* the (nonce, nc) pairs those calls have obtained

lifeVars == <<NSD, sock, nSockets, registerThread, timerInterval, orphans, recvSpawned>>
counterVars == <<registerCounter, callID, inviteCounter, messageCounter, sessID>>
tagVars == <<tags, tagLibrary>>
machineVars == <<pc, response, resp_bound, elapsed, phase, outcome>>
appVars == <<appOp, opResult, stopped>>
drvVars == <<dpc, dOp, dResponse, dBranch, dCallId, dSessId, dAuth, dMsg, dSent, dOutcome>>
inVars == <<call_callback, rpc, rIn, rOut, raw>>
genVars == <<gpc, gCand, emitted>>
authVars == <<nc, challenge, authLog>>
sockVars == <<wire, taken>>
ncVars == <<npc, nNonce, ncOut>>
auxVars == <<authVars, consulted, sockVars, ncVars>>
vars == <<lifeVars, counterVars, tagVars, ALLOW_BASIC_AUTH, machineVars, appVars, sent,
          drvVars, inVars, genVars, auxVars>>

(***************************************************************************)
(* Bounds of the model and constants of the program.                       *)
(***************************************************************************)
MaxCSeq == 4          \* no counter is advanced beyond this value
MaxTags == 3          \* size of the space gen_tag() draws from
MaxAuth == 3          \* number of gen_authorization() calls followed
default_expires == 120
register_timeout == 30

Threads == {"app", "timer"}
TagSpace == 1..MaxTags
Nonces == {"n1"}
RegisterKey == 0
\* Tags are compared for equality only; the one __init__ draws is named 1.
FirstTag == 1
\* gen_call_id() is called at most twice per request.
MaxCallID == 2 * MaxCSeq

NoChal == [hdr |-> "none", method |-> "none", nonce |-> "none"]
Challenges == [hdr : {"www-authenticate", "proxy-authenticate"},
               method : {"digest", "basic"},
               nonce : Nonces]
NoResponse == [status |-> 0, chal |-> NoChal, cid |-> 0]

\* What a read can return to register()/deregister(): a final or provisional
\* status; 403 stands for every status the code does not name.
RegStatuses == {100, 200, 400, 401, 403, 407, 500}
\* register() and deregister() use the challenge of a 401 only.
RegChallengesOf(st) == IF st = 401 THEN Challenges ELSE {NoChal}

(***************************************************************************)
(* Messages.  A message is its method, the identifiers the claims speak    *)
(* of, and its header lines in the order the composer emits them.          *)
(***************************************************************************)
H(name) == [name |-> name, value |-> <<>>]
NoBranch == [cookie |-> "none", id |-> 0]
NoMsg == [method |-> "none", cseq |-> 0, callid |-> 0, branch |-> NoBranch,
          tag |-> 0, expires |-> -1, hdrs |-> <<>>]

\* helpers.Counter (not under src/): next() pre-increments and returns.
CounterNext(x) == x + 1

\* gen_branch(): the magic cookie followed by random hex (id 0: from uuid4).
gen_branch == [cookie |-> "z9hG4bK", id |-> 0]

\* A replace that puts the new text after the Content-Length line.
RECURSIVE replace_after(_, _)
replace_after(hdrs, new) ==
    IF hdrs = <<>> THEN <<>>
    ELSE IF Head(hdrs).name = "Content-Length"
         THEN <<Head(hdrs)>> \o new \o replace_after(Tail(hdrs), new)
         ELSE <<Head(hdrs)>> \o replace_after(Tail(hdrs), new)

\* str.replace("\r\nContent-Length", "\r\n" + new + "Content-Length") on the
\* header lines (lines 846-848, 898-900, 923-925): every line that begins
\* with Content-Length gets the text `new` (complete header lines) put right
\* before it.
RECURSIVE replace(_, _)
replace(hdrs, new) ==
    IF hdrs = <<>> THEN <<>>
    ELSE IF Head(hdrs).name = "Content-Length"
         THEN new \o <<Head(hdrs)>> \o replace(Tail(hdrs), new)
         ELSE <<Head(hdrs)>> \o replace(Tail(hdrs), new)

\* gen_authorization(): the header name follows the challenge's header, the
\* value is computed from its scheme and nonce.
AuthHeaderName(chal) ==
    IF chal.hdr = "proxy-authenticate" THEN "Proxy-Authorization" ELSE "Authorization"

\* A gen_authorization() without the test of line 402.
AuthRaises_never(chal) == FALSE

\* gen_authorization() raises RuntimeError for a Basic challenge while
\* pyVoIP.ALLOW_BASIC_AUTH is off (lines 401-407), before it looks up the
\* credentials (line 410).
AuthRaises(chal) == chal.method = "basic" /\ ~ALLOW_BASIC_AUTH

gen_authorization(chal) ==
    [name |-> AuthHeaderName(chal),
     value |-> IF chal.method = "digest" THEN <<"Digest", chal.nonce>>
               ELSE <<"Basic", "credentials">>]

\* The header lines of a REGISTER (lines 436-472, 512-549); `auth` is the
\* Authorization line of the challenged request, or nothing.
RegisterHeaders(auth) ==
    <<H("Via"), H("From"), H("To"), H("Call-ID"), H("CSeq"), H("Contact"),
      H("Allow"), H("Max-Forwards"), H("Allow-Events"), H("User-Agent"),
      H("Expires")>> \o auth \o <<H("Content-Length")>>

Expires(deregister) == IF deregister THEN 0 ELSE default_expires

\* gen_first_request(deregister): takes the next call id and the next CSeq.
gen_first_request(deregister) ==
    [method |-> "REGISTER", cseq |-> CounterNext(registerCounter),
     callid |-> CounterNext(callID), branch |-> gen_branch,
     tag |-> tagLibrary[RegisterKey], expires |-> Expires(deregister),
     hdrs |-> RegisterHeaders(<<>>)]

\* gen_register(request, deregister): Call-ID is the challenge's (the default
\* argument gen_call_id() is evaluated all the same and advances callID).
gen_register(request, deregister) ==
    [method |-> "REGISTER", cseq |-> CounterNext(registerCounter),
     callid |-> request.cid, branch |-> gen_branch,
     tag |-> tagLibrary[RegisterKey], expires |-> Expires(deregister),
     hdrs |-> RegisterHeaders(<<gen_authorization(request.chal)>>)]

(***************************************************************************)
(* The socket (pyVoIP.sock, not under src/): send and recv on a closed     *)
(* socket fail; close() of a closed socket does nothing.                   *)
(***************************************************************************)
SockUsable == sock = "open"

(***************************************************************************)
(* Inbound datagrams, as the receive task sees them.                       *)
(***************************************************************************)
\* The Call-ID of a message that belongs to no dialog of this agent.
OtherCid == MaxCallID + 1
\* Request methods parse_message names; NOTIFY stands for every other one.
InMethods == {"INVITE", "BYE", "ACK", "CANCEL", "OPTIONS", "NOTIFY"}
\* The address of the first Via header: a host and a numeric port, or a
\* port that int() rejects.
ViaKinds == {"ok", "badport"}
\* Response statuses: 200 stands for those handed to the callback (lines
\* 101-110), 403 for those parse_message only logs.
InStatuses == {100, 200, 403}
NoIn == [kind |-> "none", method |-> "none", status |-> 0, via |-> "none", cid |-> 0]
Datagrams ==
    {[kind |-> k, method |-> "none", status |-> 0, via |-> "none", cid |-> 0] :
        k \in {"heartbeat", "badversion", "garbage"}}
    \cup {[kind |-> "request", method |-> m, status |-> 0, via |-> v, cid |-> OtherCid] :
        m \in InMethods, v \in ViaKinds}
    \cup {[kind |-> "response", method |-> "none", status |-> st, via |-> "none",
           cid |-> OtherCid] : st \in InStatuses}

\* The Call-IDs a peer can put on a request: that of a dialog of its own, or
\* the text "register".
InboundCids == {OtherCid, RegisterKey}

\* The threads that can be inside gen_tag() at once: the receive task
\* (gen_ok, gen_busy) and a caller's thread (gen_invite, gen_message).
Callers == {"recv", "drv"}

(***************************************************************************)
(* The authenticator's inputs and the nonce counters.                      *)
(***************************************************************************)
\* The nonces of the challenges handed to gen_authorization() directly.
AuthNonces == {"n1", "n2"}
\* The parsed qop list of a challenge: absent, or the tokens in the order
\* the registrar sent them.
QopLists == {<<>>, <<"auth">>, <<"auth-int">>, <<"auth", "auth-int">>}
\* The body of the request the header is computed for.
Bodies == {"", "sdp"}
\* A challenge message as gen_authorization() uses it: the scheme, the nonce
\* and the qop list of request.authentication.
NoRequest == [method |-> "none", nonce |-> "none", qop |-> <<>>]
AuthRequests ==
    [method : {"digest"}, nonce : AuthNonces, qop : QopLists]
    \cup {[method |-> "basic", nonce |-> "none", qop |-> <<>>]}

\* self.nc (line 70): no entry for a nonce, or a helpers.Counter (not under
\* src/) that has counted x values.
NoCounter == [made |-> FALSE, x |-> 0]
Counter == [made |-> TRUE, x |-> 0]

\* The threads that can be inside gen_digest() at once: the register timer's
\* (gen_register) and a caller's (invite, bye).
DigestCallers == {"timer", "drv"}

\* The socket's receive buffer is empty.
NoWire == [status |-> 0, cid |-> 0]

(***************************************************************************)
(* Initial state: the agent as __init__ leaves it.                         *)
(***************************************************************************)
Init ==
    /\ NSD = FALSE
    /\ sock = "none"
    /\ nSockets = 0
    /\ registerThread = "None"
    /\ timerInterval = 0
    /\ orphans = 0
    /\ recvSpawned = 0
    /\ registerCounter = 0 /\ callID = 0 /\ inviteCounter = 0
    /\ messageCounter = 0 /\ sessID = 0
    /\ tags = {FirstTag}
    /\ tagLibrary = [k \in 0..OtherCid |-> IF k = RegisterKey THEN FirstTag ELSE 0]
    /\ ALLOW_BASIC_AUTH \in BOOLEAN
    /\ pc = [t \in Threads |-> "idle"]
    /\ response = [t \in Threads |-> NoResponse]
    /\ resp_bound = [t \in Threads |-> FALSE]
    /\ elapsed = [t \in Threads |-> 0]
    /\ phase = [t \in Threads |-> 1]
    /\ outcome = [t \in Threads |-> "none"]
    /\ appOp = "none"
    /\ opResult = "none"
    /\ stopped = FALSE
    /\ sent = NoMsg
    /\ dpc = "idle" /\ dOp = "none" /\ dResponse = NoResponse
    /\ dBranch = NoBranch /\ dCallId = 0 /\ dSessId = 0 /\ dAuth = "False"
    /\ dMsg = NoMsg /\ dSent = <<>> /\ dOutcome = "none"
    /\ call_callback \in {"None", "set"}
    /\ rpc = "none" /\ rIn = NoIn /\ rOut = <<>> /\ raw = "unbound"
    /\ gpc = [c \in Callers |-> "idle"] /\ gCand = [c \in Callers |-> 0]
    /\ emitted = <<>>
    /\ nc = [n \in AuthNonces |-> NoCounter]
    /\ challenge = NoRequest /\ authLog = <<>>
    /\ consulted = FALSE
    /\ wire = NoWire /\ taken = "none"
    /\ npc = [c \in DigestCallers |-> "idle"]
    /\ nNonce = [c \in DigestCallers |-> "none"]
    /\ ncOut = <<>>

(***************************************************************************)
(* register() and deregister(), run by thread t.  The app thread runs      *)
(* register() inside start() and deregister() inside stop(); the timer     *)
(* thread runs register().                                                 *)
(***************************************************************************)
IsDeregister(t) == t = "app" /\ appOp = "stop"

Goto(t, p) ==
    /\ pc' = [pc EXCEPT ![t] = p]
    /\ UNCHANGED <<outcome, appVars>>

\* register()/deregister() of thread t ends with `res` (a return value or the
\* name of the exception raised), and the caller goes on: start() spawns the
\* receive task after register() returned and propagates what it raised;
\* stop() closes the socket after deregister() returned and propagates what it
\* raised; an exception in the timer thread ends that thread.
Return(t, res) ==
    /\ outcome' = [outcome EXCEPT ![t] = res]
    /\ UNCHANGED appOp
    /\ IF t = "timer"
       THEN pc' = [pc EXCEPT ![t] = "idle"] /\ UNCHANGED <<opResult, stopped>>
       ELSE IF appOp = "start"
            THEN IF res = "True"
                 THEN pc' = [pc EXCEPT ![t] = "spawn"] /\ UNCHANGED <<opResult, stopped>>
                 ELSE pc' = [pc EXCEPT ![t] = "idle"] /\ opResult' = res
                      /\ UNCHANGED stopped
            ELSE IF res \in {"True", "False"}
                 THEN pc' = [pc EXCEPT ![t] = "close"] /\ UNCHANGED <<opResult, stopped>>
                 ELSE pc' = [pc EXCEPT ![t] = "idle"] /\ opResult' = res
                      /\ stopped' = TRUE

\* Lines 983-984 / 943-944: compose the first request and send it.
register_send(t) ==
    /\ UNCHANGED <<inVars, genVars, auxVars>>
    /\ pc[t] = "send1"
    /\ registerCounter < MaxCSeq
    /\ registerCounter' = CounterNext(registerCounter)
    /\ callID' = CounterNext(callID)
    /\ phase' = [phase EXCEPT ![t] = 1]
    /\ response' = [response EXCEPT ![t] = NoResponse]
    /\ resp_bound' = [resp_bound EXCEPT ![t] = FALSE]
    /\ elapsed' = [elapsed EXCEPT ![t] = 0]
    /\ IF SockUsable
       THEN sent' = gen_first_request(IsDeregister(t)) /\ Goto(t, "recv1")
       ELSE sent' = NoMsg /\ Return(t, "OSError")
    /\ UNCHANGED <<lifeVars, inviteCounter, messageCounter, sessID, tagVars,
                   ALLOW_BASIC_AUTH, drvVars>>

\* Lines 986-989, 1003-1005 / 946-949, 955-956: conn.recv() and the entry of
\* trying_timeout_check (start_time is taken, `resp` is unbound).  deregister()
\* does not call trying_timeout_check after its challenged request.
WaitsTrying(t) == ~(IsDeregister(t) /\ phase[t] = 2)

register_recv(t) ==
    /\ UNCHANGED <<inVars, genVars, auxVars>>
    /\ pc[t] \in {"recv1", "recv2"}
    /\ sent' = NoMsg
    /\ resp_bound' = [resp_bound EXCEPT ![t] = FALSE]
    /\ elapsed' = [elapsed EXCEPT ![t] = 0]
    /\ IF SockUsable
       THEN \/ \E st \in RegStatuses : \E ch \in RegChallengesOf(st) :
                 /\ response' = [response EXCEPT ![t] =
                                    [status |-> st, chal |-> ch, cid |-> callID]]
                 /\ Goto(t, IF WaitsTrying(t) THEN "try" ELSE "after")
            \/ UNCHANGED response /\ Return(t, "OSError")
       ELSE UNCHANGED response /\ Return(t, "OSError")
    /\ UNCHANGED <<lifeVars, counterVars, tagVars, ALLOW_BASIC_AUTH, phase, drvVars>>

\* How long select() blocks before data is ready.
SelectWaits == {register_timeout \div 2}

\* Lines 1098-1108: one iteration of the loop of trying_timeout_check, entered
\* with response.status = TRYING.
TimedOut(t) == elapsed[t] >= register_timeout

trying_timeout_check(t) ==
    /\ UNCHANGED <<inVars, genVars, auxVars>>
    /\ pc[t] = "try"
    /\ response[t].status = 100
    /\ sent' = NoMsg
    /\ IF TimedOut(t)
       THEN /\ UNCHANGED <<response, resp_bound, elapsed>>
            /\ Return(t, "TimeoutError")
       ELSE \/ \E w \in SelectWaits :
                 \* select() reports the socket ready after w seconds
                 /\ elapsed' = [elapsed EXCEPT ![t] = @ + w]
                 /\ IF SockUsable
                    THEN \/ \E st \in RegStatuses : \E ch \in RegChallengesOf(st) :
                              /\ response' = [response EXCEPT ![t] =
                                       [status |-> st, chal |-> ch, cid |-> callID]]
                              /\ resp_bound' = [resp_bound EXCEPT ![t] = TRUE]
                              /\ Goto(t, "try")
                         \/ UNCHANGED <<response, resp_bound>> /\ Return(t, "OSError")
                    ELSE UNCHANGED <<response, resp_bound>> /\ Return(t, "OSError")
            \/ \* select() times out: nothing is read, `resp` is what it was
               /\ elapsed' = [elapsed EXCEPT ![t] = @ + register_timeout]
               /\ UNCHANGED <<response, resp_bound>>
               /\ IF resp_bound[t]
                  THEN Goto(t, "try")
                  ELSE Return(t, "UnboundLocalError")
    /\ UNCHANGED <<lifeVars, counterVars, tagVars, ALLOW_BASIC_AUTH, phase, drvVars>>

\* A register() that takes every status it does not name for success.
RegisterOk_lax(st) == st \in {200, 403}

\* Line 1055 / 978: the transaction succeeded.
RegisterOk(st) == st = 200

\* A register() that arms the timer without looking at NSD.
ShouldArm_always == TRUE

\* Line 1056: the timer is armed only while the agent runs.
ShouldArm == NSD

\* A register() that takes a 500 for a failure like any other.
Restarts_never(st) == FALSE

\* Lines 1045-1047 / 974-976: on a 500 the function sleeps and calls itself.
Restarts(st) == st = 500

\* Lines 1033-1071 (register) and 974-980 (deregister): what follows the
\* challenge handling, for the final status st.
Finish(t, st) ==
    IF Restarts(st)
    THEN Goto(t, "send1")
    ELSE IF IsDeregister(t)
         THEN Return(t, IF RegisterOk(st) THEN "True" ELSE "False")
         ELSE IF RegisterOk(st)
              THEN IF ShouldArm THEN Goto(t, "arm") ELSE Return(t, "True")
              ELSE Return(t, "InvalidAccountInfoError")

\* A register() that answers every 401 with credentials.
Challenged_again(t, st) == st = 401

\* Lines 999-1006 / 951-957: the 401 to the first request is answered with
\* the challenged REGISTER; a 401 to the challenged REGISTER is fatal.
Challenged(t, st) == phase[t] = 1 /\ st = 401

\* Lines 992-1056 / 951-980, from the return of trying_timeout_check on.
register_after(t) ==
    /\ UNCHANGED <<inVars, genVars, authVars, sockVars, ncVars>>
    /\ \/ pc[t] = "try" /\ response[t].status # 100
       \/ pc[t] = "after"
    /\ UNCHANGED <<lifeVars, inviteCounter, messageCounter, sessID, tagVars,
                   ALLOW_BASIC_AUTH, drvVars>>
    \* the locals of trying_timeout_check are gone
    /\ resp_bound' = [resp_bound EXCEPT ![t] = FALSE]
    /\ elapsed' = [elapsed EXCEPT ![t] = 0]
    /\ LET st == response[t].status IN
       IF Challenged(t, st)
       THEN \* gen_register(): counters advance before gen_authorization runs
            /\ registerCounter < MaxCSeq
            /\ registerCounter' = CounterNext(registerCounter)
            /\ callID' = CounterNext(callID)
            /\ phase' = [phase EXCEPT ![t] = 2]
            /\ response' = [response EXCEPT ![t].chal = NoChal]
            /\ IF AuthRaises(response[t].chal)
               THEN /\ sent' = NoMsg /\ Return(t, "RuntimeError(basic auth)")
                    /\ UNCHANGED consulted
               ELSE /\ consulted' = TRUE
                    /\ IF SockUsable
                       THEN /\ sent' = gen_register(response[t], IsDeregister(t))
                            /\ Goto(t, "recv2")
                       ELSE sent' = NoMsg /\ Return(t, "OSError")
       ELSE /\ UNCHANGED <<registerCounter, callID, phase, consulted>>
            /\ response' = [response EXCEPT ![t].chal = NoChal]
            /\ sent' = NoMsg
            /\ IF phase[t] = 2 /\ st = 401
               THEN Return(t, "InvalidAccountInfoError")
               ELSE Finish(t, st)

\* The interval of the register Timer (line 1059).
TimerDelay == default_expires - 5

\* Lines 1058-1065: create and start the Timer, return True.
register_arm(t) ==
    /\ UNCHANGED <<inVars, genVars, auxVars>>
    /\ pc[t] = "arm"
    /\ registerThread' = "armed"
    /\ timerInterval' = TimerDelay
    /\ orphans' = IF registerThread = "armed" THEN orphans + 1 ELSE orphans
    /\ sent' = NoMsg
    /\ Return(t, "True")
    /\ UNCHANGED <<NSD, sock, nSockets, recvSpawned, counterVars, tagVars,
                   ALLOW_BASIC_AUTH, response, resp_bound, elapsed, phase, drvVars>>

\* A pending register Timer expires and its thread begins register().
timer_fire ==
    /\ UNCHANGED <<inVars, genVars, auxVars>>
    /\ pc["timer"] = "idle"
    /\ IF registerThread = "armed"
       THEN registerThread' = "fired" /\ UNCHANGED orphans
       ELSE orphans > 0 /\ orphans' = orphans - 1 /\ UNCHANGED registerThread
    /\ pc' = [pc EXCEPT !["timer"] = "send1"]
    /\ outcome' = [outcome EXCEPT !["timer"] = "none"]
    /\ sent' = NoMsg
    /\ UNCHANGED <<NSD, sock, nSockets, timerInterval, recvSpawned, counterVars,
                   tagVars, ALLOW_BASIC_AUTH, response, resp_bound, elapsed,
                   phase, appVars, drvVars>>

(***************************************************************************)
(* start() and stop(), run by the app thread.                              *)
(***************************************************************************)
\* A start() without the check of line 163.
StartRejects_never == FALSE

\* Line 163: start() refuses to run on a running agent.
StartRejects == NSD

\* Lines 163-185: the check, NSD, the socket; register() follows.
start ==
    /\ UNCHANGED <<inVars, genVars, auxVars>>
    /\ pc["app"] = "idle"
    /\ appOp' = "start"
    /\ sent' = NoMsg
    /\ outcome' = [outcome EXCEPT !["app"] = "none"]
    /\ IF StartRejects
       THEN /\ opResult' = "RuntimeError(already started)"
            /\ UNCHANGED <<lifeVars, pc, stopped>>
       ELSE /\ nSockets < MaxCSeq
            /\ NSD' = TRUE
            /\ sock' = "open"
            /\ nSockets' = nSockets + 1
            /\ opResult' = "running"
            /\ stopped' = FALSE
            /\ pc' = [pc EXCEPT !["app"] = "send1"]
            /\ UNCHANGED <<registerThread, timerInterval, orphans, recvSpawned>>
    /\ UNCHANGED <<counterVars, tagVars, ALLOW_BASIC_AUTH, response, resp_bound,
                   elapsed, phase, drvVars>>

\* Lines 186-188: register() returned; the receive task is spawned.
start_spawn ==
    /\ rpc' = "loop"
    /\ raw' = "unbound"
    /\ UNCHANGED <<call_callback, rIn, rOut, genVars, auxVars>>
    /\ pc["app"] = "spawn"
    /\ recvSpawned' = recvSpawned + 1
    /\ pc' = [pc EXCEPT !["app"] = "idle"]
    /\ opResult' = "ok"
    /\ sent' = NoMsg
    /\ UNCHANGED <<NSD, sock, nSockets, registerThread, timerInterval, orphans,
                   counterVars, tagVars, ALLOW_BASIC_AUTH, response, resp_bound,
                   elapsed, phase, outcome, appOp, stopped, drvVars>>

\* Line 191: stop() clears NSD.
stop ==
    /\ UNCHANGED <<inVars, genVars, auxVars>>
    /\ pc["app"] = "idle"
    /\ appOp' = "stop"
    /\ opResult' = "running"
    /\ NSD' = FALSE
    /\ pc' = [pc EXCEPT !["app"] = "cancel"]
    /\ outcome' = [outcome EXCEPT !["app"] = "none"]
    /\ sent' = NoMsg
    /\ UNCHANGED <<sock, nSockets, registerThread, timerInterval, orphans,
                   recvSpawned, counterVars, tagVars, ALLOW_BASIC_AUTH, response,
                   resp_bound, elapsed, phase, stopped, drvVars>>

\* Line 192: deregister only if a register Timer object exists.
HasRegisterThread == registerThread # "None"

\* Lines 192-195: cancel the Timer (no effect on one that fired), then
\* deregister(); without a Timer go on to the close.
stop_cancel ==
    /\ UNCHANGED <<inVars, genVars, auxVars>>
    /\ pc["app"] = "cancel"
    /\ sent' = NoMsg
    /\ IF HasRegisterThread
       THEN /\ registerThread' = IF registerThread = "armed" THEN "cancelled"
                                 ELSE registerThread
            /\ pc' = [pc EXCEPT !["app"] = "send1"]
       ELSE /\ UNCHANGED registerThread
            /\ pc' = [pc EXCEPT !["app"] = "close"]
    /\ UNCHANGED <<NSD, sock, nSockets, timerInterval, orphans, recvSpawned,
                   counterVars, tagVars, ALLOW_BASIC_AUTH, response, resp_bound,
                   elapsed, phase, outcome, appVars, drvVars>>

\* Lines 196-198: close the socket if there is one.
stop_close ==
    /\ UNCHANGED <<inVars, genVars, auxVars>>
    /\ pc["app"] = "close"
    /\ sock' = IF sock = "none" THEN "none" ELSE "closed"
    /\ pc' = [pc EXCEPT !["app"] = "idle"]
    /\ opResult' = "ok"
    /\ stopped' = TRUE
    /\ sent' = NoMsg
    /\ UNCHANGED <<NSD, nSockets, registerThread, timerInterval, orphans,
                   recvSpawned, counterVars, tagVars, ALLOW_BASIC_AUTH, response,
                   resp_bound, elapsed, phase, outcome, appOp, drvVars>>

Next ==
    \/ start
    \/ start_spawn
    \/ stop
    \/ stop_cancel
    \/ stop_close
    \/ timer_fire
    \/ \E t \in Threads : register_send(t)
    \/ \E t \in Threads : register_recv(t)
    \/ \E t \in Threads : trying_timeout_check(t)
    \/ \E t \in Threads : register_after(t)
    \/ \E t \in Threads : register_arm(t)

Spec == Init /\ [][Next]_vars

(***************************************************************************)
(* invite() and message(), run by the drv thread on a started agent.       *)
(***************************************************************************)
ChallengesOf(st) == IF st \in {401, 407} THEN Challenges ELSE {NoChal}
\* What a read can return to invite(); 200 stands for every status that
\* invite() does not name.
InvStatuses == {100, 180, 200, 401, 407}
\* What a read can return to message(); 404 stands for every status that
\* message() does not name.
MsgStatuses == {100, 200, 401, 404, 407}

\* tagLibrary[cid], 0 when the key is missing (a KeyError in the code).
TagOf(cid) == IF cid \in DOMAIN tagLibrary THEN tagLibrary[cid] ELSE 0

InviteHeaders ==
    <<H("Via"), H("Max-Forwards"), H("Contact"), H("To"), H("From"),
      H("Call-ID"), H("CSeq"), H("Allow"), H("Content-Type"), H("User-Agent"),
      H("Content-Length")>>
MessageHeaders ==
    <<H("Via"), H("Max-Forwards"), H("To"), H("From"), H("Call-ID"), H("CSeq"),
      H("Allow"), H("Content-Type"), H("Content-Length")>>
AckHeaders ==
    <<H("Via"), H("Max-Forwards"), H("To"), H("From"), H("Call-ID"), H("CSeq"),
      H("User-Agent"), H("Content-Length")>>

\* Line 809: the branch of an INVITE is the cookie and 25 characters of a
\* fresh call id.
InviteBranch(id) == [cookie |-> "z9hG4bK", id |-> id]
\* Line 878: the branch of a MESSAGE.
MessageBranch(id) == [cookie |-> "z0hG4bK", id |-> id]

\* gen_invite(): the tag is the one gen_tag() drew, CSeq the next of
\* inviteCounter.
gen_invite(branch, call_id, tag) ==
    [method |-> "INVITE", cseq |-> CounterNext(inviteCounter), callid |-> call_id,
     branch |-> branch, tag |-> tag, expires |-> -1, hdrs |-> InviteHeaders]

\* gen_message()
gen_message(branch, call_id, tag) ==
    [method |-> "MESSAGE", cseq |-> CounterNext(messageCounter), callid |-> call_id,
     branch |-> branch, tag |-> tag, expires |-> -1, hdrs |-> MessageHeaders]

\* gen_ack(request): Via and Call-ID are the response's, the From tag is
\* tagLibrary[Call-ID].
gen_ack(request, branch) ==
    [method |-> "ACK", cseq |-> 0, callid |-> request.cid, branch |-> branch,
     tag |-> TagOf(request.cid), expires |-> -1, hdrs |-> AckHeaders]

\* The driver's operation ends with `res`.
DrvReturn(res) == dpc' = "idle" /\ dOutcome' = res

\* Lines 809-815: identifiers, the INVITE, the first send.
invite_send ==
    /\ UNCHANGED <<inVars, genVars, auxVars>>
    /\ dpc = "idle"
    /\ dOp = "none"
    /\ callID + 2 <= MaxCallID
    /\ inviteCounter < MaxCSeq
    /\ sessID < MaxCSeq
    /\ \E tg \in TagSpace \ tags :
          LET br == InviteBranch(CounterNext(callID))
              cid == CounterNext(CounterNext(callID))
              inv == gen_invite(br, cid, tg)
          IN  /\ tags' = tags \cup {tg}
              /\ tagLibrary' = [tagLibrary EXCEPT ![cid] = tg]
              /\ callID' = cid
              /\ sessID' = CounterNext(sessID)
              /\ inviteCounter' = CounterNext(inviteCounter)
              /\ dBranch' = br
              /\ dCallId' = cid
              /\ dSessId' = CounterNext(sessID)
              /\ dMsg' = inv
              /\ IF SockUsable
                 THEN sent' = inv /\ dSent' = <<inv>> /\ dpc' = "iread"
                      /\ dOutcome' = "none"
                 ELSE sent' = NoMsg /\ dSent' = <<>> /\ DrvReturn("OSError")
    /\ dOp' = "invite"
    /\ dAuth' = "False"
    /\ dResponse' = NoResponse
    /\ UNCHANGED <<lifeVars, registerCounter, messageCounter, ALLOW_BASIC_AUTH,
                   machineVars, appVars>>

\* The condition of the while loop of lines 819-824.
InviteLoops(r) == r.status \notin {401, 407, 100, 180} \/ r.cid # dCallId

\* Lines 817-829: a read, which returns one of the responses rs, the loop
\* condition, the NSD check and the dispatch of a message that is not the
\* awaited one (a response: nothing is sent).
invite_reads(rs) ==
    /\ UNCHANGED <<inVars, genVars, authVars, consulted, ncVars>>
    /\ dpc = "iread"
    /\ sent' = NoMsg
    /\ IF SockUsable
       THEN \/ \E m \in rs : \E ch \in ChallengesOf(m.status) :
                 LET r == [status |-> m.status, chal |-> ch, cid |-> m.cid] IN
                 /\ dResponse' = r
                 /\ dpc' = IF InviteLoops(r) /\ NSD THEN "iread" ELSE "iafter"
                 /\ UNCHANGED dOutcome
            \/ UNCHANGED dResponse /\ DrvReturn("OSError")
       ELSE UNCHANGED dResponse /\ DrvReturn("OSError")
    /\ UNCHANGED <<lifeVars, counterVars, tagVars, ALLOW_BASIC_AUTH, machineVars,
                   appVars, dOp, dBranch, dCallId, dSessId, dAuth, dMsg, dSent>>

\* The read of invite(), the peer sending what it likes.
invite_recv ==
    /\ invite_reads([status : InvStatuses, cid : {dCallId, OtherCid}])
    /\ UNCHANGED sockVars

\* Lines 833-839: return on 100/180, else compose and send the ACK.
invite_after ==
    /\ UNCHANGED <<inVars, genVars, auxVars>>
    /\ dpc = "iafter"
    /\ IF dResponse.status \in {100, 180}
       THEN sent' = NoMsg /\ UNCHANGED dSent /\ DrvReturn("returned")
       ELSE IF TagOf(dResponse.cid) = 0
            THEN sent' = NoMsg /\ UNCHANGED dSent /\ DrvReturn("KeyError")
            ELSE IF SockUsable
                 THEN /\ sent' = gen_ack(dResponse, dBranch)
                      /\ dSent' = Append(dSent, gen_ack(dResponse, dBranch))
                      /\ dpc' = "iresend"
                      /\ UNCHANGED dOutcome
                 ELSE sent' = NoMsg /\ UNCHANGED dSent /\ DrvReturn("OSError")
    /\ UNCHANGED <<lifeVars, counterVars, tagVars, ALLOW_BASIC_AUTH, machineVars,
                   appVars, dOp, dResponse, dBranch, dCallId, dSessId, dAuth, dMsg>>

\* Lines 841-852: the Authorization line, the INVITE composed again with the
\* same branch and call id, the splice before Content-Length, the send.
invite_resend ==
    /\ UNCHANGED <<inVars, genVars, authVars, sockVars, ncVars>>
    /\ dpc = "iresend"
    /\ IF dResponse.chal = NoChal
       THEN \* the message read last carries no challenge
            /\ sent' = NoMsg /\ DrvReturn("KeyError")
            /\ UNCHANGED <<inviteCounter, tagVars, dAuth, dMsg, dSent, consulted>>
       ELSE IF AuthRaises(dResponse.chal)
            THEN /\ sent' = NoMsg /\ DrvReturn("RuntimeError(basic auth)")
                 /\ UNCHANGED <<inviteCounter, tagVars, dAuth, dMsg, dSent, consulted>>
            ELSE /\ inviteCounter < MaxCSeq
                 /\ consulted' = TRUE
                 /\ \E tg \in TagSpace \ tags :
                      LET auth == gen_authorization(dResponse.chal)
                          inv == [gen_invite(dBranch, dCallId, tg) EXCEPT
                                     !.hdrs = replace(@, <<auth>>)]
                      IN  /\ tags' = tags \cup {tg}
                          /\ tagLibrary' = [tagLibrary EXCEPT ![dCallId] = tg]
                          /\ inviteCounter' = CounterNext(inviteCounter)
                          /\ dAuth' = "header"
                          /\ dMsg' = inv
                          /\ IF SockUsable
                             THEN sent' = inv /\ dSent' = Append(dSent, inv)
                                  /\ DrvReturn("returned")
                             ELSE sent' = NoMsg /\ UNCHANGED dSent
                                  /\ DrvReturn("OSError")
    /\ UNCHANGED <<lifeVars, registerCounter, callID, messageCounter, sessID,
                   ALLOW_BASIC_AUTH, machineVars, appVars, dOp, dResponse,
                   dBranch, dCallId, dSessId>>

\* Lines 878-883: identifiers, the MESSAGE, the first send.
message_send ==
    /\ UNCHANGED <<inVars, genVars, auxVars>>
    /\ dpc = "idle"
    /\ dOp = "none"
    /\ callID + 2 <= MaxCallID
    /\ messageCounter < MaxCSeq
    /\ \E tg \in TagSpace \ tags :
          LET br == MessageBranch(CounterNext(callID))
              cid == CounterNext(CounterNext(callID))
              msg == gen_message(br, cid, tg)
          IN  /\ tags' = tags \cup {tg}
              /\ callID' = cid
              /\ messageCounter' = CounterNext(messageCounter)
              /\ dBranch' = br
              /\ dCallId' = cid
              /\ dMsg' = msg
              /\ IF SockUsable
                 THEN sent' = msg /\ dSent' = <<msg>> /\ dpc' = "mread"
                      /\ dOutcome' = "none"
                 ELSE sent' = NoMsg /\ dSent' = <<>> /\ DrvReturn("OSError")
    /\ dOp' = "message"
    /\ dAuth' = "False"
    /\ dResponse' = NoResponse
    /\ UNCHANGED <<lifeVars, registerCounter, inviteCounter, sessID, tagLibrary,
                   ALLOW_BASIC_AUTH, machineVars, appVars, dSessId>>

\* Line 905: the loop is left on any other status while NSD is true.
MessageBreaks == NSD

\* Lines 885-906, one iteration of the loop: the read, the dispatch of the
\* response (nothing is sent for a response) and the branch on its status.
\* On the first 401/407 line 896 sets auth and line 897 calls
\* self.gen_auth_header, which SIPClient does not define: the call raises
\* AttributeError, so lines 898-902 (the replace and the second send) and the
\* `if auth` exit of line 893 are never reached.
message_recv ==
    /\ UNCHANGED <<inVars, genVars, auxVars>>
    /\ dpc = "mread"
    /\ sent' = NoMsg
    /\ IF SockUsable
       THEN \/ \E st \in MsgStatuses : \E ch \in ChallengesOf(st) :
                 /\ dResponse' = [status |-> st, chal |-> ch, cid |-> dCallId]
                 /\ IF st = 100
                    THEN UNCHANGED <<dpc, dOutcome, dAuth>>
                    ELSE IF st \in {401, 407}
                         THEN IF dAuth # "False"
                              THEN DrvReturn("returned") /\ UNCHANGED dAuth
                              ELSE /\ dAuth' = "True"
                                   /\ DrvReturn("AttributeError")
                         ELSE IF st = 200 \/ MessageBreaks
                              THEN DrvReturn("returned") /\ UNCHANGED dAuth
                              ELSE UNCHANGED <<dpc, dOutcome, dAuth>>
            \/ UNCHANGED <<dResponse, dAuth>> /\ DrvReturn("OSError")
       ELSE UNCHANGED <<dResponse, dAuth>> /\ DrvReturn("OSError")
    /\ UNCHANGED <<lifeVars, counterVars, tagVars, ALLOW_BASIC_AUTH, machineVars,
                   appVars, dOp, dBranch, dCallId, dSessId, dMsg, dSent>>

\* gen_ringing(request) (lines 588-607): a fresh tag, stored in tagLibrary
\* under the request's Call-ID; the caller sends the text it returns.
gen_ringing ==
    /\ UNCHANGED <<inVars, genVars, auxVars>>
    /\ dpc = "idle"
    /\ dOp = "none"
    /\ \E cid \in InboundCids : \E tg \in TagSpace \ tags :
         /\ tags' = tags \cup {tg}
         /\ tagLibrary' = [tagLibrary EXCEPT ![cid] = tg]
         /\ dCallId' = cid
    /\ dOp' = "ringing"
    /\ DrvReturn("returned")
    /\ sent' = NoMsg
    /\ UNCHANGED <<lifeVars, counterVars, ALLOW_BASIC_AUTH, machineVars, appVars,
                   dResponse, dBranch, dSessId, dAuth, dMsg, dSent>>

\* The Via of a BYE is the Via of the message it answers.
PeerBranch == [cookie |-> "peer", id |-> 0]
ByeHeaders ==
    <<H("Via"), H("From"), H("To"), H("Call-ID"), H("CSeq"), H("Contact"),
      H("User-Agent"), H("Allow"), H("Content-Length")>>

\* _gen_bye_cancel(request, "BYE"): the CSeq number is the request's (line
\* 739); byeCounter is not used.
gen_bye(request) ==
    [method |-> "BYE", cseq |-> request.cseq, callid |-> request.cid,
     branch |-> PeerBranch, tag |-> TagOf(request.cid), expires |-> -1,
     hdrs |-> ByeHeaders]

\* What a read can return to bye(); 200 stands for every status but 401.
ByeStatuses == {200, 401}

\* Lines 910-918: bye(request) for a message of the peer's call, with CSeq
\* number n.
bye_send ==
    /\ UNCHANGED <<inVars, genVars, auxVars>>
    /\ dpc = "idle"
    /\ dOp \in {"none", "ringing"}
    /\ \E n \in 1..MaxCSeq :
         LET cid == OtherCid
             bye == gen_bye([cid |-> cid, cseq |-> n])
         IN
         /\ dCallId' = cid
         /\ IF TagOf(cid) = 0
            THEN /\ sent' = NoMsg /\ dMsg' = NoMsg /\ dSent' = <<>>
                 /\ DrvReturn("KeyError")
            ELSE IF SockUsable
                 THEN /\ sent' = bye /\ dMsg' = bye /\ dSent' = <<bye>>
                      /\ dpc' = "bread" /\ dOutcome' = "none"
                 ELSE /\ sent' = NoMsg /\ dMsg' = bye /\ dSent' = <<>>
                      /\ DrvReturn("OSError")
    /\ dOp' = "bye"
    /\ dAuth' = "False"
    /\ dResponse' = NoResponse
    /\ UNCHANGED <<lifeVars, counterVars, tagVars, ALLOW_BASIC_AUTH, machineVars,
                   appVars, dBranch, dSessId>>

\* Lines 919-936: the read; on 401 the same BYE with the Authorization line
\* before Content-Length is sent once more.
bye_recv ==
    /\ UNCHANGED <<inVars, genVars, authVars, sockVars, ncVars>>
    /\ dpc = "bread"
    /\ IF SockUsable
       THEN \/ \E st \in ByeStatuses : \E ch \in RegChallengesOf(st) :
                 /\ dResponse' = [status |-> st, chal |-> ch, cid |-> dCallId]
                 /\ IF st # 401
                    THEN /\ sent' = NoMsg /\ UNCHANGED <<dMsg, dSent, dAuth, consulted>>
                         /\ DrvReturn("returned")
                    ELSE IF AuthRaises(ch)
                         THEN /\ sent' = NoMsg
                              /\ UNCHANGED <<dMsg, dSent, dAuth, consulted>>
                              /\ DrvReturn("RuntimeError(basic auth)")
                         ELSE LET bye == [dMsg EXCEPT !.hdrs =
                                            replace(@, <<gen_authorization(ch)>>)]
                              IN  /\ sent' = bye /\ dMsg' = bye
                                  /\ dSent' = Append(dSent, bye)
                                  /\ dAuth' = "header"
                                  /\ consulted' = TRUE
                                  /\ DrvReturn("returned")
            \/ /\ sent' = NoMsg
               /\ UNCHANGED <<dResponse, dMsg, dSent, dAuth, consulted>>
               /\ DrvReturn("OSError")
       ELSE /\ sent' = NoMsg
            /\ UNCHANGED <<dResponse, dMsg, dSent, dAuth, consulted>>
            /\ DrvReturn("OSError")
    /\ UNCHANGED <<lifeVars, counterVars, tagVars, ALLOW_BASIC_AUTH, machineVars,
                   appVars, dOp, dBranch, dCallId, dSessId>>

\* The agent after a start() whose REGISTER was answered with 200 OK: it
\* runs, the register timer is armed and the receive task is spawned.
InitDrv ==
    /\ NSD = TRUE
    /\ sock = "open"
    /\ nSockets = 1
    /\ registerThread = "armed"
    /\ timerInterval = default_expires - 5
    /\ orphans = 0
    /\ recvSpawned = 1
    /\ registerCounter = 1 /\ callID = 1 /\ inviteCounter = 0
    /\ messageCounter = 0 /\ sessID = 0
    /\ tags = {FirstTag}
    /\ tagLibrary = [k \in 0..OtherCid |-> IF k = RegisterKey THEN FirstTag ELSE 0]
    /\ ALLOW_BASIC_AUTH \in BOOLEAN
    /\ pc = [t \in Threads |-> "idle"]
    /\ response = [t \in Threads |->
                     IF t = "app" THEN [status |-> 200, chal |-> NoChal, cid |-> 1]
                     ELSE NoResponse]
    /\ resp_bound = [t \in Threads |-> FALSE]
    /\ elapsed = [t \in Threads |-> 0]
    /\ phase = [t \in Threads |-> 1]
    /\ outcome = [t \in Threads |-> IF t = "app" THEN "True" ELSE "none"]
    /\ appOp = "start"
    /\ opResult = "ok"
    /\ stopped = FALSE
    /\ sent = NoMsg
    /\ dpc = "idle" /\ dOp = "none" /\ dResponse = NoResponse
    /\ dBranch = NoBranch /\ dCallId = 0 /\ dSessId = 0 /\ dAuth = "False"
    /\ dMsg = NoMsg /\ dSent = <<>> /\ dOutcome = "none"
    /\ call_callback \in {"None", "set"}
    /\ rpc = "loop" /\ rIn = NoIn /\ rOut = <<>> /\ raw = "unbound"
    /\ gpc = [c \in Callers |-> "idle"] /\ gCand = [c \in Callers |-> 0]
    /\ emitted = <<>>
    /\ nc = [n \in AuthNonces |-> NoCounter]
    /\ challenge = NoRequest /\ authLog = <<>>
    /\ consulted = FALSE
    /\ wire = NoWire /\ taken = "none"
    /\ npc = [c \in DigestCallers |-> "idle"]
    /\ nNonce = [c \in DigestCallers |-> "none"]
    /\ ncOut = <<>>

\* The drv thread runs one invite() or one message(), or composes a 180
\* Ringing for an inbound call and ends a call with bye(), while the app
\* thread may run stop(), once.
NextDrv ==
    \/ invite_send
    \/ invite_recv
    \/ invite_after
    \/ invite_resend
    \/ message_send
    \/ message_recv
    \/ gen_ringing
    \/ bye_send
    \/ bye_recv
    \/ (appOp = "start" /\ stop)
    \/ stop_cancel
    \/ stop_close
    \/ register_send("app")
    \/ register_recv("app")
    \/ trying_timeout_check("app")
    \/ register_after("app")

SpecDrv == InitDrv /\ [][NextDrv]_vars

(***************************************************************************)
(* The receive task (recv) and the dispatcher (parse_message).  rOut lists *)
(* what one iteration did, in program order.                               *)
(***************************************************************************)
Event(ev, what, to) == [ev |-> ev, what |-> what, to |-> to, ret |-> "none"]

\* self.call_callback(message), which returns ret
CallbackCall(d, ret) ==
    [ev |-> "callback", what |-> IF d.kind = "request" THEN d.method ELSE "response",
     to |-> "none", ret |-> ret]

\* What the callback returns: a text, or None.
CallbackReturns == {"text", "None"}

\* Lines 200-203: sendto computes a default for `address` and then hands only
\* the request to self.s.send; no address reaches the socket.
sendto(request, address) == Event("send", request, "unaddressed")

\* Two statements the other way round.
InOrder_swapped(first, second) == second \o first

\* Two statements in program order.
InOrder(first, second) == first \o second

\* The result of a branch of parse_message: what it did, the exception that
\* left it, and whether it drew a tag (gen_ok and gen_busy call gen_tag).
Result(out, err, tag) == [out |-> out, err |-> err, tag |-> tag]

\* Lines 100-121: a response.
parse_response(d, ret) ==
    IF d.status = 200 /\ call_callback # "None"
    THEN Result(<<CallbackCall(d, ret)>>, "none", FALSE)
    ELSE Result(<<>>, "none", FALSE)

\* Lines 122-127: INVITE.
parse_invite(d, ret, usable) ==
    IF call_callback = "None"
    THEN IF usable THEN Result(<<sendto("486", "via")>>, "none", TRUE)
         ELSE Result(<<>>, "OSError", TRUE)
    ELSE Result(<<CallbackCall(d, ret)>>, "none", FALSE)

\* Lines 128-144: BYE.  The address is the first Via's host and int(port);
\* when int() rejects the port the except branch passes the Via address as
\* it is.  A send that fails raises in the try and again in the except.
parse_bye(d, ret, usable) ==
    LET cb == IF call_callback # "None" THEN <<CallbackCall(d, ret)>> ELSE <<>>
        address == IF d.via = "ok" THEN "via" ELSE "via-raw"
    IN  IF usable
        THEN Result(InOrder(cb, <<sendto("200", address)>>), "none", TRUE)
        ELSE Result(cb, "OSError", TRUE)

\* Lines 147-151: CANCEL calls self.call_callback without a test.
parse_cancel(d, ret, usable) ==
    IF call_callback = "None"
    THEN Result(<<>>, "TypeError", FALSE)
    ELSE IF usable
         THEN Result(InOrder(<<CallbackCall(d, ret)>>, <<sendto("200", "via")>>), "none", TRUE)
         ELSE Result(<<CallbackCall(d, ret)>>, "OSError", TRUE)

\* Lines 152-158: OPTIONS.  str() of what the callback returned is sent;
\* without a callback _gen_options_response is gen_busy.
parse_options(d, ret, usable) ==
    IF call_callback # "None"
    THEN IF usable
         THEN Result(InOrder(<<CallbackCall(d, ret)>>, <<sendto(ret, "via")>>), "none", FALSE)
         ELSE Result(<<CallbackCall(d, ret)>>, "OSError", FALSE)
    ELSE IF usable THEN Result(<<sendto("486", "via")>>, "none", TRUE)
         ELSE Result(<<>>, "OSError", TRUE)

\* Lines 99-160.
parse_message(d, ret, usable) ==
    IF d.kind = "response" THEN parse_response(d, ret)
    ELSE IF d.method = "INVITE" THEN parse_invite(d, ret, usable)
    ELSE IF d.method = "BYE" THEN parse_bye(d, ret, usable)
    ELSE IF d.method = "CANCEL" THEN parse_cancel(d, ret, usable)
    ELSE IF d.method = "OPTIONS" THEN parse_options(d, ret, usable)
    ELSE Result(<<>>, "none", FALSE)

\* SIPMessage(raw) (pyVoIP.SIP.message, not under src/): raises SIPParseError
\* for an unsupported SIP version and for text that is no SIP message.
SIPMessageRaises(d) == d.kind \in {"badversion", "garbage"}

\* Lines 78-84: the inner try.  Every exception of SIPMessage(raw) and of
\* parse_message is caught by `except Exception` at line 83 and logged, so
\* the handlers of lines 88-93 are never entered for a parse failure.
Handle(d, ret, usable) ==
    IF d.kind = "heartbeat" THEN Result(<<>>, "none", FALSE)
    ELSE IF SIPMessageRaises(d) THEN Result(<<>>, "SIPParseError", FALSE)
    ELSE parse_message(d, ret, usable)

\* Line 75: the loop test.
recv_test ==
    /\ rpc = "loop"
    /\ rpc' = IF NSD THEN "reading" ELSE "exited"
    /\ UNCHANGED <<lifeVars, counterVars, tagVars, ALLOW_BASIC_AUTH, machineVars,
                   appVars, sent, drvVars, call_callback, rIn, rOut, raw, genVars,
                   auxVars>>

\* Lines 76-77 and 85-97: the read, which returns one of the datagrams ds.
\* A read that fails with BlockingIOError sleeps and goes on.  Any other
\* failure enters the handler of line 94, whose debug line formats `raw`
\* (line 95): while no read of this task has returned, `raw` is unbound and
\* the handler itself raises UnboundLocalError, which ends the task; with
\* `raw` bound the failure is logged and, with pyVoIP.DEBUG on, raised
\* again, which ends the task too.
recv_reads(ds) ==
    /\ rpc = "reading"
    /\ \/ /\ SockUsable
          /\ \E d \in ds : rIn' = d
          /\ rOut' = <<>>
          /\ raw' = "bound"
          /\ rpc' = "dispatch"
       \/ /\ SockUsable
          /\ rIn' = [NoIn EXCEPT !.kind = "BlockingIOError"]
          /\ rOut' = <<>>
          /\ UNCHANGED raw
          /\ rpc' = "loop"
       \/ /\ rIn' = [NoIn EXCEPT !.kind = "OSError"]
          /\ UNCHANGED raw
          /\ IF raw = "unbound"
             THEN /\ rOut' = <<Event("raise", "UnboundLocalError", "none")>>
                  /\ rpc' = "raised"
             ELSE \E DEBUG \in BOOLEAN :
                  /\ rOut' = IF DEBUG
                             THEN <<Event("debug", "OSError", "none"),
                                    Event("raise", "OSError", "DEBUG")>>
                             ELSE <<Event("debug", "OSError", "none")>>
                  /\ rpc' = IF DEBUG THEN "raised" ELSE "loop"
    /\ UNCHANGED <<lifeVars, counterVars, tagVars, ALLOW_BASIC_AUTH, machineVars,
                   appVars, sent, drvVars, call_callback, genVars, authVars,
                   consulted, ncVars>>

\* The read of the receive task, the peer sending what it likes.
recv_read == recv_reads(Datagrams) /\ UNCHANGED sockVars

\* Lines 78-84: the datagram is parsed and dispatched; an exception is logged.
recv_dispatch ==
    /\ rpc = "dispatch"
    /\ \E ret \in CallbackReturns :
         LET r == Handle(rIn, ret, SockUsable) IN
         /\ rOut' = IF r.err = "none" THEN r.out
                    ELSE Append(r.out, Event("debug", r.err, "none"))
         /\ IF r.tag
            THEN \E tg \in TagSpace \ tags : tags' = tags \cup {tg}
            ELSE UNCHANGED tags
    /\ rpc' = "loop"
    /\ UNCHANGED <<lifeVars, counterVars, tagLibrary, ALLOW_BASIC_AUTH, machineVars,
                   appVars, sent, drvVars, call_callback, rIn, raw, genVars, auxVars>>

\* The receive task runs on a started agent while the app thread may run
\* stop(), once.
NextIn ==
    \/ recv_test
    \/ recv_read
    \/ recv_dispatch
    \/ (appOp = "start" /\ stop)
    \/ stop_cancel
    \/ stop_close
    \/ register_send("app")
    \/ register_recv("app")
    \/ trying_timeout_check("app")
    \/ register_after("app")

SpecIn == InitDrv /\ [][NextIn]_vars

(***************************************************************************)
(* invite() and the receive task on one socket.  After start() both read   *)
(* with self.s.s.recv (lines 77, 817, 829); a datagram in the socket's     *)
(* receive buffer goes to whichever read comes first.                      *)
(***************************************************************************)
\* The peer's reply to the INVITE arrives.
deliver ==
    /\ dpc = "iread"
    /\ wire = NoWire
    /\ \E st \in InvStatuses : wire' = [status |-> st, cid |-> dCallId]
    /\ UNCHANGED <<lifeVars, counterVars, tagVars, ALLOW_BASIC_AUTH, machineVars,
                   appVars, sent, drvVars, inVars, genVars, authVars, consulted,
                   taken, ncVars>>

\* Lines 817, 829: the read of invite() returns the datagram.
invite_recv_wire ==
    /\ wire # NoWire
    /\ invite_reads({wire})
    /\ dpc' # "idle"
    /\ wire' = NoWire
    /\ taken' = "drv"

\* The datagram as parse_message classifies it (lines 101-120).
AsDatagram(w) ==
    [kind |-> "response", method |-> "none",
     status |-> IF w.status \in {180, 200, 407} THEN 200
                ELSE IF w.status = 100 THEN 100 ELSE 403,
     via |-> "none", cid |-> w.cid]

\* Line 77: the read of the receive task returns the datagram.
recv_read_wire ==
    /\ wire # NoWire
    /\ recv_reads({AsDatagram(wire)})
    /\ rpc' = "dispatch"
    /\ wire' = NoWire
    /\ taken' = "recv"

\* Line 77 with nothing to read: BlockingIOError, or a read error.
recv_read_none ==
    /\ wire = NoWire
    /\ recv_reads({})
    /\ UNCHANGED sockVars

NextSock ==
    \/ invite_send
    \/ deliver
    \/ invite_recv_wire
    \/ invite_after
    \/ invite_resend
    \/ recv_test
    \/ recv_read_wire
    \/ recv_read_none
    \/ recv_dispatch

SpecSock == InitDrv /\ [][NextSock]_vars

(***************************************************************************)
(* gen_tag() statement by statement, for callers on two threads.  The      *)
(* actions above take gen_tag() in one step because one thread calls it    *)
(* there; nothing in the code keeps two threads from being inside it.      *)
(***************************************************************************)
\* Lines 247-249: draw a candidate and test it against self.tags.  A
\* candidate that is in self.tags is dropped and the loop draws again.
gen_tag_draw(c) ==
    /\ gpc[c] = "idle"
    /\ Len(emitted) < MaxTags
    /\ \E cand \in TagSpace :
         /\ gCand' = [gCand EXCEPT ![c] = cand]
         /\ gpc' = [gpc EXCEPT ![c] = IF cand \notin tags THEN "append" ELSE "idle"]
    /\ UNCHANGED <<lifeVars, counterVars, tagVars, ALLOW_BASIC_AUTH, machineVars,
                   appVars, sent, drvVars, inVars, emitted, auxVars>>

\* Lines 250-251: append the candidate to self.tags and return it.
gen_tag_append(c) ==
    /\ gpc[c] = "append"
    /\ tags' = tags \cup {gCand[c]}
    /\ emitted' = Append(emitted, gCand[c])
    /\ gpc' = [gpc EXCEPT ![c] = "idle"]
    /\ UNCHANGED <<lifeVars, counterVars, tagLibrary, ALLOW_BASIC_AUTH, machineVars,
                   appVars, sent, drvVars, inVars, gCand, auxVars>>

NextTag ==
    \/ \E c \in Callers : gen_tag_draw(c)
    \/ \E c \in Callers : gen_tag_append(c)

SpecTag == Init /\ [][NextTag]_vars

(***************************************************************************)
(* The authenticator: gen_authorization() and gen_digest(), called by one  *)
(* thread at a time for challenges with and without qop.  (The drivers     *)
(* above are run with challenges that carry no qop, which leave self.nc    *)
(* alone.)  A hash is the text it is computed from, in brackets: equal     *)
(* hashes mean equal texts.                                                *)
(***************************************************************************)
\* Lines 273-293: the hash function (md5 unless the challenge names another).
hash_func(data) == <<"H(">> \o data \o <<")">>

HexDigits == <<"0", "1", "2", "3", "4", "5", "6", "7", "8", "9",
               "A", "B", "C", "D", "E", "F">>

\* int.to_bytes(4, "big") (line 331)
to_bytes(n) == [i \in 1..4 |-> (n \div (256 ^ (4 - i))) % 256]

\* base64.b16encode (line 331): two upper-case hex digits per byte.
b16encode(bytes) ==
    [i \in 1..(2 * Len(bytes)) |->
        LET b == bytes[(i + 1) \div 2]
        IN  HexDigits[(IF i % 2 = 1 THEN b \div 16 ELSE b % 16) + 1]]

\* Line 327: uuid.uuid4().hex, a value no earlier call has drawn; k is the
\* number of calls before this one.
cnonce(k) == <<"cnonce", HexDigits[k + 1]>>

\* Lines 317-321: the qop of the computation is the first token of the
\* challenge's list, and pop(0) takes it off the list of the message.
SelectedQop(req) == IF req.qop = <<>> THEN "none" ELSE Head(req.qop)
Popped(req) == IF req.qop = <<>> THEN req ELSE [req EXCEPT !.qop = Tail(@)]

\* A gen_digest() that keeps one counter for all nonces.
NcKey_shared(nonce) == "n1"

\* Lines 328-331: the counter is looked up under the challenge's nonce.
NcKey(nonce) == nonce

\* Lines 333-349 and 360-370: the digest; n is the value the nonce's counter
\* returned, cn the client nonce.
HA1 == hash_func(<<"username", ":", "realm", ":", "password">>)
HA2(qop, body) ==
    hash_func(<<"REGISTER", ":", "uri">>
              \o (IF qop = "auth-int" THEN <<":">> \o hash_func(<<body>>) ELSE <<>>))
gen_digest(req, body, n, cn) ==
    LET qop == SelectedQop(req) IN
    IF qop # "none"
    THEN [scheme |-> "Digest", nonce |-> req.nonce, qop |-> qop, cnonce |-> cn,
          nc |-> b16encode(to_bytes(n)),
          digest |-> hash_func(HA1 \o <<":", req.nonce, ":">> \o b16encode(to_bytes(n))
                               \o <<":">> \o cn \o <<":", qop, ":">> \o HA2(qop, body))]
    ELSE [scheme |-> "Digest", nonce |-> req.nonce, qop |-> "none", cnonce |-> <<>>,
          nc |-> <<>>,
          digest |-> hash_func(HA1 \o <<":", req.nonce, ":">> \o HA2("none", body))]

\* Line 383: gen_authorization(request, body) calls self.gen_digest(request);
\* its own `body` is not passed on, so gen_digest computes with its default
\* body, the empty text.
DigestOf(req, body, n, cn) == gen_digest(req, "", n, cn)

\* Lines 408-418: the Basic header.
BasicHeader ==
    [scheme |-> "Basic", nonce |-> "none", qop |-> "none", cnonce |-> <<>>,
     nc |-> <<>>, digest |-> <<"b64(", "username", ":", "password", ")">>]
NoHeader ==
    [scheme |-> "none", nonce |-> "none", qop |-> "none", cnonce |-> <<>>,
     nc |-> <<>>, digest |-> <<>>]

\* One call and its result: the challenge and the body it was given, the
\* header it returned or the exception it raised.
AuthResult(req, body, raised, hdr) ==
    [request |-> req, body |-> body, raised |-> raised, hdr |-> hdr]

\* A 401/407 has been read and parsed: a new challenge message (for
\* instance lines 919-920).
new_challenge ==
    /\ Len(authLog) < MaxAuth
    /\ \E req \in AuthRequests : challenge' = req
    /\ UNCHANGED <<lifeVars, counterVars, tagVars, ALLOW_BASIC_AUTH, machineVars,
                   appVars, sent, drvVars, inVars, genVars, nc, authLog,
                   consulted, sockVars, ncVars>>

\* Lines 377-419 with gen_digest (lines 295-375): one call of
\* gen_authorization(challenge, body).
authorize ==
    /\ challenge # NoRequest
    /\ Len(authLog) < MaxAuth
    /\ \E body \in Bodies :
         IF challenge.method = "digest"
         THEN LET key == NcKey(challenge.nonce)
                  n == CounterNext(nc[key].x)
                  hdr == DigestOf(challenge, body, n, cnonce(Len(authLog)))
              IN  /\ consulted' = TRUE
                  /\ challenge' = Popped(challenge)
                  /\ nc' = IF SelectedQop(challenge) = "none" THEN nc
                           ELSE [nc EXCEPT ![key] = [made |-> TRUE, x |-> n]]
                  /\ authLog' = Append(authLog, AuthResult(challenge, body, "none", hdr))
         ELSE IF AuthRaises(challenge)
              THEN /\ authLog' = Append(authLog,
                                   AuthResult(challenge, body, "RuntimeError", NoHeader))
                   /\ UNCHANGED <<nc, challenge, consulted>>
              ELSE /\ consulted' = TRUE
                   /\ authLog' = Append(authLog,
                                   AuthResult(challenge, body, "none", BasicHeader))
                   /\ UNCHANGED <<nc, challenge>>
    /\ UNCHANGED <<lifeVars, counterVars, tagVars, ALLOW_BASIC_AUTH, machineVars,
                   appVars, sent, drvVars, inVars, genVars, sockVars, ncVars>>

NextAuth ==
    \/ new_challenge
    \/ authorize

SpecAuth == Init /\ [][NextAuth]_vars

(***************************************************************************)
(* The nonce counters of gen_digest() statement by statement, for callers  *)
(* on two threads and challenges with qop, next to gen_tag().              *)
(* Counter.next() is taken as one step.                                    *)
(***************************************************************************)
\* Line 328: the test `nonce not in self.nc` for the nonce of the caller's
\* challenge.
digest_test(c) ==
    /\ npc[c] = "idle"
    /\ Len(ncOut) < MaxAuth
    /\ \E n \in AuthNonces :
         /\ nNonce' = [nNonce EXCEPT ![c] = n]
         /\ npc' = [npc EXCEPT ![c] = IF nc[n].made THEN "next" ELSE "create"]
    /\ UNCHANGED <<lifeVars, counterVars, tagVars, ALLOW_BASIC_AUTH, machineVars,
                   appVars, sent, drvVars, inVars, genVars, authVars, consulted,
                   sockVars, ncOut>>

\* Line 329: self.nc[nonce] = Counter()
digest_create(c) ==
    /\ npc[c] = "create"
    /\ nc' = [nc EXCEPT ![NcKey(nNonce[c])] = Counter]
    /\ npc' = [npc EXCEPT ![c] = "next"]
    /\ UNCHANGED <<lifeVars, counterVars, tagVars, ALLOW_BASIC_AUTH, machineVars,
                   appVars, sent, drvVars, inVars, genVars, challenge, authLog,
                   consulted, sockVars, nNonce, ncOut>>

\* Lines 330-332: nc is the next value of the nonce's counter.
digest_next(c) ==
    /\ npc[c] = "next"
    /\ LET key == NcKey(nNonce[c])
           n == CounterNext(nc[key].x)
       IN  /\ nc' = [nc EXCEPT ![key] = [made |-> TRUE, x |-> n]]
           /\ ncOut' = Append(ncOut, [nonce |-> nNonce[c], nc |-> b16encode(to_bytes(n))])
    /\ npc' = [npc EXCEPT ![c] = "idle"]
    /\ UNCHANGED <<lifeVars, counterVars, tagVars, ALLOW_BASIC_AUTH, machineVars,
                   appVars, sent, drvVars, inVars, genVars, challenge, authLog,
                   consulted, sockVars, nNonce>>

NextShared ==
    \/ \E c \in Callers : gen_tag_draw(c)
    \/ \E c \in Callers : gen_tag_append(c)
    \/ \E c \in DigestCallers : digest_test(c)
    \/ \E c \in DigestCallers : digest_create(c)
    \/ \E c \in DigestCallers : digest_next(c)

SpecShared == Init /\ [][NextShared]_vars

(***************************************************************************)
(* Properties of the lifecycle and of register()/deregister().             *)
(***************************************************************************)
RegPcs == {"send1", "recv1", "recv2", "try", "after", "arm"}
RegisterErrors == {"InvalidAccountInfoError", "TimeoutError", "UnboundLocalError",
                   "OSError", "RuntimeError(basic auth)"}

\* Thread t has taken the step (a step of another thread leaves these alone).
Moved(t) ==
    <<pc[t], response[t], resp_bound[t], elapsed[t], phase[t], outcome[t]>>' #
    <<pc[t], response[t], resp_bound[t], elapsed[t], phase[t], outcome[t]>>
AppMoved == Moved("app") \/ appOp' # appOp \/ opResult' # opResult

\* The register()/deregister() of thread t ends in this step.
Ends(t) == pc[t] \in RegPcs /\ pc'[t] \notin RegPcs

\* Timers that are started and have neither fired nor been cancelled.
PendingTimers == orphans + (IF registerThread = "armed" THEN 1 ELSE 0)

StartEnded == pc["app"] = "idle" /\ appOp = "start"
StopEnded == pc["app"] = "idle" /\ appOp = "stop"

\* C1: if the initial REGISTER inside start() fails with an authentication
\* error, start() propagates it and the agent is left stopped: NSD is false,
\* no receive task has been spawned and no register timer exists.  (Stated
\* for the first start() of a fresh agent.)
C1_StartAuthFailureLeavesStopped ==
    (StartEnded /\ nSockets = 1 /\ outcome["app"] = "InvalidAccountInfoError")
        => /\ opResult = "InvalidAccountInfoError"
           /\ NSD = FALSE
           /\ recvSpawned = 0
           /\ registerThread = "None"

\* C2: every stop() on a started agent ends with the socket closed, whatever
\* the outcome of the deregister.
C2_StopAlwaysClosesSocket ==
    (StopEnded /\ sock # "none") => sock = "closed"

\* C3: a second stop() after a completed stop() sends no message, raises
\* nothing and changes no agent state.
C3_DoubleStopIsNoOp ==
    [][(stopped /\ sock = "closed" /\ appOp' = "stop" /\ AppMoved)
          => /\ UNCHANGED <<lifeVars, counterVars, tagVars>>
             /\ sent' = NoMsg
             /\ opResult' \in {"running", "ok"}]_vars

\* C4: once stop() has finished, no register timer is pending and no refresh
\* REGISTER (non-zero Expires) is sent, for every interleaving of stop() with
\* a timer-fired register() in progress.
C4_NoRefreshAfterStop ==
    (StopEnded /\ stopped /\ opResult = "ok")
        => /\ PendingTimers = 0
           /\ ~(sent.method = "REGISTER" /\ sent.expires # 0)

\* C5: start() on a running agent fails and has no effect: no new socket, no
\* REGISTER, no receive task, NSD stays true.
C5_StartWhileRunningRejected ==
    [][(NSD /\ pc["app"] = "idle" /\ appOp' = "start" /\ AppMoved)
          => /\ opResult' = "RuntimeError(already started)"
             /\ pc'["app"] = "idle"
             /\ sent' = NoMsg
             /\ NSD'
             /\ UNCHANGED <<lifeVars, counterVars, tagVars>>]_vars

C5_Witness ==
    /\ StartEnded /\ opResult = "RuntimeError(already started)"
    /\ NSD /\ nSockets = 1 /\ recvSpawned = 1

\* C6: when a REGISTER transaction ends with 200 OK, register() returns True
\* and arms exactly one register timer, with delay default_expires - 5 and
\* running register() when it fires, if and only if NSD is true when
\* register() looks at it; with NSD false it arms none.
C6_OkArmsTimerIffRunning ==
    [][\A t \in Threads :
          /\ (~IsDeregister(t) /\ pc[t] \in {"try", "after"}
                /\ response[t].status = 200 /\ Moved(t))
               => /\ UNCHANGED <<registerThread, timerInterval, orphans>>
                  /\ IF NSD THEN pc'[t] = "arm"
                     ELSE Ends(t) /\ outcome'[t] = "True"
          /\ (pc[t] = "arm" /\ Moved(t))
               => /\ Ends(t) /\ outcome'[t] = "True"
                  /\ registerThread' = "armed"
                  /\ timerInterval' = default_expires - 5
                  /\ PendingTimers' = PendingTimers + 1
          /\ (pc[t] \in {"try", "after"} /\ pc'[t] = "arm")
               => response[t].status = 200
          /\ (pc["timer"] = "idle" /\ Moved("timer"))
               => /\ pc'["timer"] = "send1"
                  /\ PendingTimers' = PendingTimers - 1]_vars

C6_Witness ==
    /\ StartEnded /\ opResult = "ok" /\ outcome["app"] = "True"
    /\ phase["app"] = 2
    /\ registerThread = "armed" /\ timerInterval = 115 /\ PendingTimers = 1

\* C7: register() raises, never returns True and arms no register timer when
\* the final response is neither 200 nor 500; a second 401 raises
\* InvalidAccountInfoError.
C7_NonOkFinalStatusFails ==
    [][\A t \in Threads :
          /\ (~IsDeregister(t) /\ Ends(t) /\ response[t].status \notin {0, 200, 500})
               => /\ outcome'[t] \in RegisterErrors
                  /\ UNCHANGED <<registerThread, timerInterval, orphans>>
          /\ (~IsDeregister(t) /\ pc[t] \in {"try", "after"} /\ Moved(t)
                /\ response[t].status \notin {100, 200, 401, 500})
               => Ends(t) /\ outcome'[t] = "InvalidAccountInfoError"
          /\ (~IsDeregister(t) /\ pc[t] \in {"try", "after"} /\ Moved(t)
                /\ phase[t] = 2 /\ response[t].status = 401)
               => Ends(t) /\ outcome'[t] = "InvalidAccountInfoError"]_vars

C7_Witness ==
    /\ StartEnded /\ outcome["app"] = "InvalidAccountInfoError"
    /\ phase["app"] = 2 /\ response["app"].status = 401
    /\ registerThread = "None"

\* C8: if the registrar answers with 100 Trying and never sends a further
\* reply, register() ends by raising the timeout error once register_timeout
\* has elapsed, and with no other error.
C8_SilentTryingRaisesTimeout ==
    \A t \in Threads :
        (/\ ~IsDeregister(t) /\ pc[t] = "idle" /\ outcome[t] # "none"
         /\ response[t].status = 100 /\ ~resp_bound[t]
         /\ elapsed[t] >= register_timeout)
            => outcome[t] = "TimeoutError"

(***************************************************************************)
(* Properties of invite() and message().                                   *)
(***************************************************************************)
\* The header lines `hdrs` are the lines `base` with the line `auth` put
\* right before the Content-Length line.
SplicedBefore(hdrs, auth, base) ==
    \E i \in 1..(Len(hdrs) - 1) :
        /\ hdrs[i] = auth
        /\ hdrs[i + 1].name = "Content-Length"
        /\ SubSeq(hdrs, 1, i - 1) \o SubSeq(hdrs, i + 1, Len(hdrs)) = base

\* invite() has ended, the message it read last is a 401/407 with the Call-ID
\* of its INVITE, and the socket has stayed open.
InviteChallenged ==
    /\ dOp = "invite" /\ dpc = "idle" /\ dOutcome # "none"
    /\ dResponse.status \in {401, 407} /\ dResponse.cid = dCallId
    /\ sock = "open"

\* invite() has sent the INVITE, one ACK and one rebuilt INVITE with the
\* Authorization line of the challenge right before Content-Length, the
\* branch and the Call-ID of the first INVITE.
SentAckThenAuthInvite ==
    /\ Len(dSent) = 3
    /\ dSent[1].method = "INVITE"
    /\ dSent[2].method = "ACK" /\ dSent[2].callid = dCallId
    /\ dSent[3].method = "INVITE"
    /\ SplicedBefore(dSent[3].hdrs, gen_authorization(dResponse.chal), InviteHeaders)
    /\ dSent[3].branch = dSent[1].branch
    /\ dSent[3].callid = dSent[1].callid

\* C9 as stated: when invite() reads a 401 or 407 whose Call-ID matches the
\* outgoing INVITE, it sends one ACK and then exactly one rebuilt INVITE that
\* carries the Authorization header computed from that challenge immediately
\* before Content-Length, with the branch and Call-ID of the first INVITE.
C9_ChallengeAlwaysResent ==
    InviteChallenged => SentAckThenAuthInvite

\* C9: when invite() reads a 401 or 407 whose Call-ID matches the outgoing
\* INVITE, it sends one ACK; then, unless the challenge is Basic while
\* ALLOW_BASIC_AUTH is off, it sends exactly one rebuilt INVITE that carries
\* the Authorization header computed from that challenge immediately before
\* Content-Length, with the branch and Call-ID of the first INVITE, and
\* returns; for a Basic challenge with ALLOW_BASIC_AUTH off it raises after
\* the ACK and sends no second INVITE.
C9_ChallengeResentUnlessBasicRefused ==
    InviteChallenged =>
        IF dResponse.chal.method = "basic" /\ ~ALLOW_BASIC_AUTH
        THEN /\ dOutcome = "RuntimeError(basic auth)"
             /\ Len(dSent) = 2
             /\ dSent[1].method = "INVITE"
             /\ dSent[2].method = "ACK" /\ dSent[2].callid = dCallId
        ELSE dOutcome = "returned" /\ SentAckThenAuthInvite

C9_Witness ==
    /\ InviteChallenged /\ dOutcome = "returned"
    /\ dResponse.status = 407 /\ dResponse.chal.hdr = "proxy-authenticate"
    /\ Len(dSent) = 3
    /\ dSent[3].hdrs[Len(InviteHeaders)].name = "Proxy-Authorization"
    /\ dSent[3].cseq = 2 /\ dSent[3].tag # dSent[1].tag

\* C10: on the first 401/407 read by message(), the MESSAGE is re-sent
\* exactly once with the Authorization header computed from the challenge
\* spliced in before Content-Length; on a second 401/407 message() stops
\* without sending again.
C10_MessageRetriesOnceWithAuth ==
    /\ (/\ dOp = "message" /\ dpc = "idle" /\ dOutcome # "none"
        /\ dResponse.status \in {401, 407} /\ sock = "open")
          => /\ dOutcome = "returned"
             /\ Len(dSent) = 2
             /\ dSent[2].method = "MESSAGE"
             /\ \E ch \in Challenges :
                    SplicedBefore(dSent[2].hdrs, gen_authorization(ch), MessageHeaders)
    /\ dOp = "message" => Len(dSent) <= 2

\* C11: once NSD has been cleared, message() leaves its read loop at the
\* next response it reads, whatever the status of that response.  (Stated
\* for the responses other than 100 Trying, which the loop skips before it
\* looks at NSD.)
C11_ShutdownBreaksMessageLoop ==
    [][(dpc = "mread" /\ ~NSD /\ dResponse' # dResponse /\ dResponse'.status # 100)
          => dpc' = "idle"]_vars

(***************************************************************************)
(* Properties of the receive task and the dispatcher.                      *)
(***************************************************************************)
\* The receive task has finished with the datagram rIn.
Handled == rIn.kind # "none" /\ rpc # "dispatch"

\* No send of the iteration failed.
NoSendFailure == \A i \in 1..Len(rOut) : ~(rOut[i].ev = "debug" /\ rOut[i].what = "OSError")

\* The responses the iteration sent, in order.
Sends == SelectSeq(rOut, LAMBDA e : e.ev = "send")

\* C12: when the receive task reads a message whose parsing fails because of
\* an unsupported SIP version, it sends a 505 response and keeps running.
C12_BadVersionAnswered505 ==
    (Handled /\ rIn.kind = "badversion")
        => /\ \E i \in 1..Len(rOut) : rOut[i].ev = "send" /\ rOut[i].what = "505"
           /\ rpc \in {"loop", "reading", "exited"}

\* C13: the 200 OK for an inbound BYE is transmitted to the address of the
\* request's first Via header, and to the configured server only when that
\* address is unusable.
C13_ByeOkGoesToVia ==
    (Handled /\ rIn.method = "BYE")
        => \A i \in 1..Len(Sends) :
              Sends[i].to = IF rIn.via = "ok" THEN "via" ELSE "server"

\* C14: for every inbound BYE or CANCEL dispatched while a callback is set,
\* the callback is invoked with the message and then exactly one 200 OK is
\* sent (the send not failing).
C14_CallbackThenOk ==
    (Handled /\ rIn.method \in {"BYE", "CANCEL"} /\ call_callback = "set"
       /\ NoSendFailure)
        => /\ Len(rOut) = 2
           /\ rOut[1].ev = "callback" /\ rOut[1].what = rIn.method
           /\ rOut[2].ev = "send" /\ rOut[2].what = "200"

C14_Witness ==
    /\ Handled /\ rIn.method = "CANCEL" /\ call_callback = "set"
    /\ Len(rOut) = 2 /\ rOut[1].ev = "callback" /\ rOut[2].ev = "send"
    /\ ~NSD

\* C15: every inbound CANCEL is answered with a 200 OK, whether or not a
\* callback is set.
C15_CancelAlwaysAnswered ==
    (Handled /\ rIn.method = "CANCEL" /\ NoSendFailure)
        => Len(Sends) = 1 /\ Sends[1].what = "200"

\* C16: for an inbound OPTIONS the dispatcher sends the callback's text when
\* the callback returns a text, and 486 Busy Here in every other case.
C16_OptionsTextOrBusy ==
    (Handled /\ rIn.method = "OPTIONS" /\ NoSendFailure)
        => /\ Len(Sends) = 1
           /\ Sends[1].what =
                 IF \E i \in 1..Len(rOut) : rOut[i].ev = "callback" /\ rOut[i].ret = "text"
                 THEN "text" ELSE "486"

(***************************************************************************)
(* Properties of the requests the agent composes.                          *)
(***************************************************************************)
\* The requests of method family fam among those the drv thread has sent.
SentOf(fam) == SelectSeq(dSent, LAMBDA m : m.method = fam)

\* C17: the Via branch of every request the agent originates (REGISTER,
\* challenged REGISTER, INVITE, MESSAGE, SUBSCRIBE) begins with z9hG4bK.
C17_BranchHasMagicCookie ==
    /\ \A i \in 1..Len(dSent) :
          dSent[i].method \in {"REGISTER", "INVITE", "MESSAGE", "SUBSCRIBE"}
              => dSent[i].branch.cookie = "z9hG4bK"
    /\ sent.method = "REGISTER" => sent.branch.cookie = "z9hG4bK"

\* C18: for each method family the CSeq number of the k-th request sent in
\* that family is the k-th value of the family's counter, so CSeq numbers
\* within a family are strictly increasing.
C18_CSeqFollowsCounter ==
    /\ \A fam \in {"INVITE", "MESSAGE", "BYE"} :
          \A k \in 1..Len(SentOf(fam)) : SentOf(fam)[k].cseq = k
    /\ sent.method = "REGISTER" => sent.cseq = registerCounter

\* C19: every REGISTER carries the register tag generated at construction,
\* and tagLibrary["register"] keeps that value after any sequence of
\* operations, including composing INVITEs and 180 Ringing responses for
\* arbitrary Call-IDs.
C19_RegisterTagStable ==
    /\ tagLibrary[RegisterKey] = FirstTag
    /\ sent.method = "REGISTER" => sent.tag = FirstTag

\* C20: no two gen_tag() calls of one agent return the same tag: a
\* candidate already in the set of emitted tags is rejected.
C20_TagsUnique ==
    /\ \A i, j \in 1..Len(emitted) : i # j => emitted[i] # emitted[j]
    /\ \A i \in 1..Len(emitted) : emitted[i] # FirstTag

(***************************************************************************)
(* Properties of the authenticator.                                        *)
(***************************************************************************)
DigitValue(d) == (CHOOSE i \in 1..16 : HexDigits[i] = d) - 1

\* The number a text of hex digits denotes.
RECURSIVE HexValue(_)
HexValue(ds) ==
    IF ds = <<>> THEN 0
    ELSE 16 * HexValue(SubSeq(ds, 1, Len(ds) - 1)) + DigitValue(ds[Len(ds)])

\* The i-th call returned a header computed with qop.
WithQop(i) == authLog[i].raised = "none" /\ authLog[i].hdr.qop # "none"

\* How many of the first i calls returned a header with qop for the nonce
\* of the i-th.
QopUses(i) ==
    Cardinality({j \in 1..i : WithQop(j) /\ authLog[j].hdr.nonce = authLog[i].hdr.nonce})

C22_AuthIntBoundToBody ==
    \A i \in 1..Len(authLog) :
        (WithQop(i) /\ authLog[i].hdr.qop = "auth-int") =>
            \A b \in Bodies :
                (DigestOf(authLog[i].request, b, HexValue(authLog[i].hdr.nc),
                          authLog[i].hdr.cnonce).digest = authLog[i].hdr.digest)
                    <=> (b = authLog[i].body)

\* The message carries Basic credentials.
CarriesBasic(m) ==
    \E i \in 1..Len(m.hdrs) : m.hdrs[i].value # <<>> /\ m.hdrs[i].value[1] = "Basic"

\* C23: while ALLOW_BASIC_AUTH is off, a Basic challenge makes the
\* authorization step of register(), deregister(), invite() and bye() fail
\* with an error before the credentials store is consulted, and no request
\* carrying Basic credentials is ever sent.
C23_BasicRefusedBeforeCredentials ==
    [][~ALLOW_BASIC_AUTH =>
          /\ ~CarriesBasic(sent')
          /\ \A i \in 1..Len(dSent') : ~CarriesBasic(dSent'[i])
          /\ (/\ pc["app"] \in {"try", "after"} /\ Moved("app")
              /\ phase["app"] = 1 /\ response["app"].status = 401
              /\ response["app"].chal.method = "basic")
               => /\ outcome'["app"] = "RuntimeError(basic auth)"
                  /\ sent' = NoMsg
                  /\ UNCHANGED consulted
          /\ (dpc = "iresend" /\ dpc' # dpc /\ dResponse.chal.method = "basic")
               => /\ dOutcome' = "RuntimeError(basic auth)"
                  /\ sent' = NoMsg
                  /\ UNCHANGED consulted
          /\ (dpc = "bread" /\ dpc' # dpc /\ dResponse'.chal.method = "basic")
               => /\ dOutcome' = "RuntimeError(basic auth)"
                  /\ sent' = NoMsg
                  /\ UNCHANGED consulted]_vars

C23_Witness ==
    /\ ~ALLOW_BASIC_AUTH /\ ~consulted
    /\ dOp = "bye" /\ dpc = "idle" /\ dOutcome = "RuntimeError(basic auth)"
    /\ dResponse.chal.method = "basic"
    /\ Len(dSent) = 1

(***************************************************************************)
(* Properties of the drivers next to the receive task.                     *)
(***************************************************************************)
\* C24: once the agent is started, the reply to a request sent by a
\* transaction driver is read by that driver and never consumed by the
\* receive task, in every interleaving of the receive task with the driver.
C24_ReplyReadByDriver ==
    taken # "recv"

\* C25: invite() leaves its read loop only on a response whose Call-ID is
\* the outgoing Call-ID and whose status is 100, 180, 401 or 407, and it
\* sends an ACK (and then a credentialed INVITE) only when that response is a
\* 401 or 407, also when stop() clears NSD while invite() is reading.
C25_InviteLeavesLoopOnAwaited ==
    dOp = "invite" =>
        /\ dpc \in {"iafter", "iresend"}
             => /\ dResponse.cid = dCallId
                /\ dResponse.status \in {100, 180, 401, 407}
        /\ (\E i \in 1..Len(dSent) : dSent[i].method = "ACK")
             => /\ dResponse.cid = dCallId
                /\ dResponse.status \in {401, 407}

\* The message carries an Authorization or Proxy-Authorization header.
HasAuth(m) ==
    \E i \in 1..Len(m.hdrs) : m.hdrs[i].name \in {"Authorization", "Proxy-Authorization"}

\* C26: authentication retries never loop: within one register, deregister,
\* invite, message or bye transaction (a restart after a 500 being a new
\* transaction) at most one request carrying an Authorization or
\* Proxy-Authorization header is sent, whatever the peer replies.  For
\* register()/deregister(): the credentialed REGISTER is sent by the step
\* that takes the transaction from its first to its second phase, and the
\* first phase is entered again only by sending a new first request.
C26_AtMostOneAuthRequest ==
    [][/\ Cardinality({i \in 1..Len(dSent') : HasAuth(dSent'[i])}) <= 1
       /\ \A t \in Threads :
            /\ (HasAuth(sent') /\ sent'.method = "REGISTER" /\ Moved(t))
                 => phase[t] = 1 /\ phase'[t] = 2
            /\ (phase[t] = 2 /\ Moved(t) /\ pc[t] # "send1")
                 => phase'[t] = 2 /\ ~HasAuth(sent')]_vars

C26_Witness ==
    /\ dOp = "bye" /\ Len(dSent) = 2 /\ HasAuth(dSent[2])
    /\ appOp = "stop" /\ outcome["app"] = "InvalidAccountInfoError"
    /\ phase["app"] = 2 /\ response["app"].status = 401

C28_DeregisterSameShape ==
    \A t \in Threads :
        outcome[t] \in {"True", "False", "InvalidAccountInfoError"}
            => response[t].status # 100

(***************************************************************************)
(* Properties of the receive task's loop.                                  *)
(***************************************************************************)
\* The task was ended by the `raise` of line 97 (pyVoIP.DEBUG on).
DebugRethrow == \E i \in 1..Len(rOut) : rOut[i].ev = "raise" /\ rOut[i].to = "DEBUG"

\* C29: with the debug rethrow flag off, the receive task ends only when NSD
\* has become false: no received bytes, parse failure, callback failure or
\* socket read error ends the task while NSD is true.
C29_TaskEndsOnlyOnShutdown ==
    (rpc \in {"exited", "raised"} /\ ~DebugRethrow) => ~NSD

(***************************************************************************)
(* Properties of the shared maps.                                          *)
(***************************************************************************)
\* C30: mutations of the tag set and of the nonce-counter map are
\* serialised: with gen_tag() and gen_digest() running concurrently on
\* several threads, no two calls obtain the same tag and no two calls obtain
\* the same nc value for the same nonce.
C30_SharedMapsSerialised ==
    /\ \A i, j \in 1..Len(emitted) : i # j => emitted[i] # emitted[j]
    /\ \A i, j \in 1..Len(ncOut) : i # j => ncOut[i] # ncOut[j]


(***************************************************************************)
(* Properties of the challenge message and of the register timer.          *)
(***************************************************************************)
\* C31: computing an Authorization header leaves the challenge message
\* unchanged: a call of gen_authorization() on a challenge leaves the qop
\* list of the message as it was, so that a second call on the same
\* message selects the same qop as the first.
C31_AuthorizeLeavesChallenge ==
    [][authLog' # authLog =>
          /\ challenge' = challenge
          /\ SelectedQop(challenge') = SelectedQop(challenge)]_vars


\* C32: in every state in which the agent is running (NSD true) after a
\* successful start(), registration is being maintained: a register timer
\* is pending or a register() transaction is in progress.
C32_RegistrationMaintained ==
    (StartEnded /\ opResult = "ok" /\ NSD)
        => \/ PendingTimers > 0
           \/ \E t \in Threads : pc[t] \in RegPcs

=============================================================================
